---- MODULE Spec2Model ----
(***************************************************************************)
(* backupmate: the incremental backup engine of backup_core.py.            *)
(*                                                                         *)
(* The state is the two directory trees (source, destination), the         *)
(* manifest file, which lives in the destination tree under a fixed name,  *)
(* and the locals of the run_backup call in progress.  One run is a        *)
(* sequence of steps: Begin (validation, makedirs, load_state), one step   *)
(* per file of the walk, and Finish (save_state and return).  The manifest *)
(* file is text: save_state writes it with json.dump, load_state parses it *)
(* with json.load.  The CLI's main (backupmate.py) is the caller: it maps  *)
(* how parse_args and run_backup end to an exit code.                      *)
(*                                                                         *)
(* Every call uses the default manifest location (state_file = None); the  *)
(* wall-clock duration stamped in the finally clause is left out.  I/O     *)
(* errors are inputs of the steps that do I/O: any read, open or write may *)
(* fail.                                                                   *)
(***************************************************************************)
EXTENDS Integers, Sequences, FiniteSets, TLC

VARIABLES
    src,             \* the source tree: file -> content, NoContent when absent
    destDir,         \* whether the destination directory exists
    dest,            \* the destination tree: relative path -> file on disk
    pc,              \* "idle" | "walk" | "done": where run_backup is
    cfg,             \* the arguments of the current (or last) call
    previous_state,  \* run_backup's local previous_state
    new_state,       \* run_backup's local new_state
    stats,           \* run_backup's local stats (BackupStats)
    todo,            \* the files os.walk has still to yield, in order
    log,             \* the COPY lines printed by the current call
    result,          \* how the call ended: "ok" or the exception's type
    io,              \* what the current call did so far: makedirs, load_state,
                     \* and how often it wrote to the manifest file
    pre,             \* the disk as it was when the current call began
    last,            \* the call before the current one, if it returned
    sameSrc,         \* the source did not change between that call and this one
    changed,         \* the source changed since the last call began
    runs,            \* calls made so far
    edits,           \* edits of the source made so far
    cli              \* how the last invocation of the CLI's main ended

vars == << src, destDir, dest, pc, cfg, previous_state, new_state, stats,
           todo, log, result, io, pre, last, sameSrc, changed, runs, edits,
           cli >>

----------------------------------------------------------------------------
(* Bounds *)

\* Calls of run_backup in one behaviour, files in the source at one time, and
\* edits of the source in one behaviour.
MaxRuns == 3
MaxFiles == 2
MaxEdits == 1

----------------------------------------------------------------------------
(* Paths, contents and files on disk *)

\* Names are sequences of characters; StateName stands for the fixed name
\* ".backupmate_state.json", shortened to two characters.
StateName == << ".", "s" >>

File(dir, name) == [dir |-> dir, name |-> name]

\* The files a source tree may hold: two in the root (one of them carrying
\* the manifest's file name) and one in each of two subdirectories.
Files ==
    { File(<< >>, StateName),
      File(<< >>, << "a", ".", "t" >>),
      File(<< "n" >>, << "b", ".", "l" >>),
      File(<< "m" >>, << "c", ".", "t" >>) }

SubDirs == { f.dir : f \in Files } \ { << >> }

\* rel_path of a file found in directory root under the name `name`.
RelPath(f) == IF f.dir = << >> THEN f.name ELSE f.dir \o << "/" >> \o f.name

Paths == { RelPath(f) : f \in Files }

\* File contents: two byte strings, and the mark of a file that is absent.
Contents == { "hello", "{}" }
NoContent == "<absent>"

Size(c) == IF c = "hello" THEN 5 ELSE 2

\* A file on disk in the destination tree.
NoFile == [k |-> "none"]
Raw(c) == [k |-> "raw", c |-> c]
Partial == [k |-> "partial"]
Json(m) == [k |-> "json", files |-> m]
Torn(toks) == [k |-> "torn", toks |-> toks]

----------------------------------------------------------------------------
(* Pure functions of backup_core.py *)

Digest(c) == [alg |-> "sha256", of |-> c]

None == [alg |-> "none"]

\* dict.get
Get(m, key) == IF key \in DOMAIN m THEN m[key] ELSE None

EmptyDict == [p \in {} |-> None]

\* m[key] = value on a dict
Put(m, key, value) ==
    [p \in (DOMAIN m) \cup {key} |-> IF p = key THEN value ELSE m[p]]

RECURSIVE FnMatch(_, _)
FnMatch(name, pat) ==
    IF pat = << >> THEN name = << >>
    ELSE IF Head(pat) = "*"
         THEN \/ FnMatch(name, Tail(pat))
              \/ name # << >> /\ FnMatch(Tail(name), pat)
         ELSE /\ name # << >>
              /\ Head(pat) = "?" \/ Head(pat) = Head(name)
              /\ FnMatch(Tail(name), Tail(pat))

NeverExcluded(relative_path, patterns) == FALSE

_is_excluded(relative_path, patterns) ==
    \E i \in 1..Len(patterns) : FnMatch(relative_path, patterns[i])

\* Code points of the characters in use, the order sorted() compares by.
Code(ch) ==
    CASE ch = "." -> 46 [] ch = "/" -> 47 [] ch = "a" -> 97 [] ch = "b" -> 98
      [] ch = "c" -> 99 [] ch = "l" -> 108 [] ch = "m" -> 109 [] ch = "n" -> 110
      [] ch = "s" -> 115 [] ch = "t" -> 116

RECURSIVE StrLess(_, _)
StrLess(a, b) ==
    IF b = << >> THEN FALSE
    ELSE IF a = << >> THEN TRUE
    ELSE IF Head(a) # Head(b) THEN Code(Head(a)) < Code(Head(b))
    ELSE StrLess(Tail(a), Tail(b))

RECURSIVE Sorted(_)
Sorted(S) ==
    IF S = {} THEN << >>
    ELSE LET least == CHOOSE f \in S :
                          \A g \in S \ {f} : StrLess(f.name, g.name)
         IN  << least >> \o Sorted(S \ {least})

----------------------------------------------------------------------------
(* The manifest file as text: json.dump and json.load *)

\* JSON text as a sequence of tokens: the punctuation marks and the string
\* literals, a literal holding a sequence of strings (the characters of a
\* path, the name "files", or the two parts of a digest).  A text cut inside
\* a token is no more JSON than the text cut before it.
Punct(c) == [t |-> c, v |-> << >>]
Str(v) == [t |-> "str", v |-> v]
Word(c) == [t |-> "word", v |-> << c >>]

FilesKey == << "files" >>

HexDigest(d) == << d.alg, d.of >>
DigestOf(v) == [alg |-> v[1], of |-> v[2]]

\* sort_keys = True: the keys in the order of their code points.
RECURSIVE SortedKeys(_)
SortedKeys(K) ==
    IF K = {} THEN << >>
    ELSE LET least == CHOOSE p \in K : \A q \in K \ {p} : StrLess(p, q)
         IN  << least >> \o SortedKeys(K \ {least})

RECURSIVE DumpMembers(_, _)
DumpMembers(m, keys) ==
    IF keys = << >> THEN << >>
    ELSE << Str(Head(keys)), Punct(":"), Str(HexDigest(m[Head(keys)])) >>
         \o (IF Tail(keys) = << >> THEN << >> ELSE << Punct(",") >>)
         \o DumpMembers(m, Tail(keys))

\* json.dump({"files": state}, f, indent=2, sort_keys=True)
json_dump(state) ==
    << Punct("{"), Str(FilesKey), Punct(":"), Punct("{") >>
    \o DumpMembers(state, SortedKeys(DOMAIN state))
    \o << Punct("}"), Punct("}") >>

\* What json.load makes of a text: a value, a string or an object (a dict
\* from strings to values), or no value when the text is not JSON.
StrVal(v) == [kind |-> "str", v |-> v, m |-> << >>]
ObjVal(m) == [kind |-> "obj", v |-> << >>, m |-> m]
Parsed(val, next) == [ok |-> TRUE, next |-> next, val |-> val]
NotJson == [ok |-> FALSE, next |-> 0, val |-> StrVal(<< >>)]

RECURSIVE ParseValue(_, _)
RECURSIVE ParseMembers(_, _, _)

\* The value that starts at token i.
ParseValue(toks, i) ==
    IF i > Len(toks) THEN NotJson
    ELSE IF toks[i].t = "str" THEN Parsed(StrVal(toks[i].v), i + 1)
    ELSE IF toks[i].t # "{" THEN NotJson
    ELSE IF i + 1 <= Len(toks) /\ toks[i + 1].t = "}"
         THEN Parsed(ObjVal(<< >>), i + 2)
    ELSE ParseMembers(toks, i + 1, << >>)

\* The members of an object from token i on, up to its closing brace; a key
\* met twice keeps its last value.
ParseMembers(toks, i, acc) ==
    IF i + 1 > Len(toks) \/ toks[i].t # "str" \/ toks[i + 1].t # ":"
    THEN NotJson
    ELSE LET member == ParseValue(toks, i + 2)
             key == toks[i].v
             obj == [p \in (DOMAIN acc) \cup {key} |->
                        IF p = key THEN member.val ELSE acc[p]]
             j == member.next
         IN  IF ~member.ok \/ j > Len(toks) THEN NotJson
             ELSE IF toks[j].t = "}" THEN Parsed(ObjVal(obj), j + 1)
             ELSE IF toks[j].t = "," THEN ParseMembers(toks, j + 1, obj)
             ELSE NotJson

json_load(toks) ==
    LET top == ParseValue(toks, 1)
    IN  IF top.ok /\ top.next = Len(toks) + 1 THEN top ELSE NotJson

\* The text of a file on disk.  A copy torn by a write error holds a proper
\* prefix of its source, here the empty one.
TextOf(file) ==
    CASE file.k = "json" -> json_dump(file.files)
      [] file.k = "torn" -> file.toks
      [] file.k = "partial" -> << >>
      [] file.k = "raw" ->
            IF file.c = "{}" THEN << Punct("{"), Punct("}") >>
            ELSE << Word(file.c) >>

\* A faulty variant: the file is opened without truncating it, and what the
\* new text has not yet covered of the old one stays.
OverwrittenInPlace(old, new, cut) ==
    SubSeq(new, 1, cut) \o SubSeq(old, cut + 1, Len(old))

\* Lines 33-34 when the writing stops after `cut` tokens: open(path, "w")
\* truncates the file, and the first `cut` tokens of the new text are in it.
TornText(old, new, cut) == SubSeq(new, 1, cut)

\* What load_state makes of the file at the manifest's location: the dict it
\* returns, or the exception it raises.  A "files" value that is not an
\* object would be returned as it is; no text of the model holds one.
Loaded(m) == [ok |-> TRUE, files |-> m]
LoadFailed == [ok |-> FALSE, files |-> "JSONDecodeError"]
NotADict == [ok |-> FALSE, files |-> "AttributeError"]

load_state(file) ==
    IF file.k = "none" THEN Loaded(EmptyDict)
    ELSE LET data == json_load(TextOf(file))
         IN  IF ~data.ok THEN LoadFailed
             ELSE IF data.val.kind # "obj" THEN NotADict
             ELSE IF FilesKey \notin DOMAIN data.val.m THEN Loaded(EmptyDict)
             ELSE LET files == data.val.m[FilesKey]
                  IN  IF files.kind # "obj" THEN NotADict
                      ELSE Loaded([p \in DOMAIN files.m |->
                                      DigestOf(files.m[p].v)])

----------------------------------------------------------------------------
(* The walk *)

\* os.walk, top down: the root's files, then each subdirectory's, the
\* subdirectories in the order the filesystem lists them (`order`); the files
\* of a directory in sorted order.
Present(s, d) == { f \in Files : f.dir = d /\ s[f] # NoContent }

RECURSIVE WalkDirs(_, _)
WalkDirs(s, order) ==
    IF order = << >> THEN << >>
    ELSE Sorted(Present(s, Head(order))) \o WalkDirs(s, Tail(order))

os_walk(s, order) == Sorted(Present(s, << >>)) \o WalkDirs(s, order)

DirOrders ==
    { o \in [1..Cardinality(SubDirs) -> SubDirs] :
        \A i, j \in DOMAIN o : i # j => o[i] # o[j] }

----------------------------------------------------------------------------
(* run_backup *)

Modes == { "full", "incremental" }

\* The --exclude lists tried: none, and "*.l" with ".?".
ExcludeLists ==
    { << >>,
      << << "*", ".", "l" >>, << ".", "?" >> >> }

Config(mode, excludes, dry_run, src_dir) ==
    [mode |-> mode, excludes |-> excludes, dry_run |-> dry_run,
     src_dir |-> src_dir]

\* The calls tried: every valid one, one with a mode that is none, and one
\* with a source directory that does not exist.
Configs ==
    { Config(m, e, d, "src") : m \in Modes, e \in ExcludeLists, d \in BOOLEAN }
    \cup { Config("bad", << >>, FALSE, "src"),
           Config("full", << >>, FALSE, "missing") }

\* The source trees tried: at most MaxFiles files, and never the second root
\* file together with the second subdirectory.
Trees ==
    { Files \ { File(<< "m" >>, << "c", ".", "t" >>) },
      Files \ { File(<< >>, << "a", ".", "t" >>) } }

SrcStates ==
    { s \in [Files -> Contents \cup {NoContent}] :
        LET present == { f \in Files : s[f] # NoContent }
        IN  /\ Cardinality(present) <= MaxFiles
            /\ \E t \in Trees : present \subseteq t }

\* The CLI's exit codes (backupmate.py, lines 9-10).
EXIT_INVALID_ARGS == 1
EXIT_RUNTIME_ERROR == 2

\* How an invocation of main ended: the code it returned, with what
\* parse_args and the writing of the --json-report file came to; or, when an
\* exception left main uncaught, no code at all.
Exited(parsed, report, code) ==
    [returned |-> TRUE, parsed |-> parsed, report |-> report, code |-> code]
NotExited == [returned |-> FALSE]

\* The --json-report file: not asked for, written, or failing to be written.
Reports == { "none", "written", "failed" }

\* Lines 48-86 of backupmate.py: main, given how parse_args ended, how
\* run_backup ended and how the report was written.  `except Exception` does
\* not catch a KeyboardInterrupt.
main(parsed, outcome, report) ==
    IF parsed # "ok" THEN Exited(parsed, "none", EXIT_INVALID_ARGS)
    ELSE IF outcome = "KeyboardInterrupt" THEN NotExited
    ELSE IF outcome # "ok" THEN Exited(parsed, "none", EXIT_RUNTIME_ERROR)
    ELSE IF report = "failed" THEN Exited(parsed, report, EXIT_RUNTIME_ERROR)
    ELSE Exited(parsed, report, 0)

NoStats == [files_copied |-> 0, bytes_copied |-> 0, skipped |-> 0]
NoIO == [mkdir |-> FALSE, loaded |-> FALSE, saves |-> 0]
NoCfg == Config("incremental", << >>, FALSE, "src")
NoRun == [ok |-> FALSE, cfg |-> NoCfg, stats |-> NoStats, log |-> << >>]

Init ==
    /\ src \in SrcStates
    /\ destDir = FALSE
    /\ dest = [p \in Paths |-> NoFile]
    /\ pc = "idle"
    /\ cfg = NoCfg
    /\ previous_state = EmptyDict
    /\ new_state = EmptyDict
    /\ stats = NoStats
    /\ todo = << >>
    /\ log = << >>
    /\ result = "none"
    /\ io = NoIO
    /\ pre = [dest |-> dest, destDir |-> destDir]
    /\ last = NoRun
    /\ sameSrc = FALSE
    /\ changed = FALSE
    /\ runs = 0
    /\ edits = 0
    /\ cli = NotExited

\* A faulty variant: the source directory is not checked.
ModeErrorOnly(mode, src_dir) == mode \notin { "full", "incremental" }

\* Lines 90-98: the two checks that raise BackupError.
ConfigError(mode, src_dir) == mode \notin Modes \/ src_dir # "src"

\* Faulty variants of the skip decision: never skipping, skipping whatever
\* the manifest knows, and skipping in full mode too.
SkipNever(mode, prev, rel_path, file_hash) == FALSE

SkipKnownPath(mode, prev, rel_path, file_hash) ==
    mode = "incremental" /\ rel_path \in DOMAIN prev

SkipAnyMode(mode, prev, rel_path, file_hash) ==
    Get(prev, rel_path) = file_hash

\* Line 128: the skip decision.
ShouldSkip(mode, prev, rel_path, file_hash) ==
    mode = "incremental" /\ Get(prev, rel_path) = file_hash

\* A faulty variant: the bytes are copied in a dry run too.
CopyAlways(dry_run) == TRUE

\* Line 134: whether the bytes are copied.
DoCopy(dry_run) == ~dry_run

\* A faulty variant: a dry run does not count the copies it would make.
CountRealCopy(n, dry_run) == IF dry_run THEN n ELSE n + 1

\* Line 136: files_copied after a copy decision.
CountCopy(n, dry_run) == n + 1

\* A faulty variant: the size of the last copy replaces the total.
BytesOfLastCopy(total, written) == written

\* Line 135: bytes_copied after a copy that wrote `written` bytes.
BytesCopied(total, written) == total + written

\* A faulty variant: the new manifest is merged into the previous one.
MergedState(prev, new) ==
    [p \in (DOMAIN prev) \cup (DOMAIN new) |->
        IF p \in DOMAIN new THEN new[p] ELSE prev[p]]

\* Line 141: the dict handed to save_state.
SavedState(prev, new) == new

\* Lines 90-112: validation, makedirs, load_state.  `ioerr` is the manifest
\* file failing to open, `order` the order the subdirectories are listed in.
Begin(mode, excludes, dry_run, src_dir, ioerr, order) ==
    /\ pc = "idle"
    /\ runs < MaxRuns
    /\ runs' = runs + 1
    /\ cfg' = Config(mode, excludes, dry_run, src_dir)
    /\ sameSrc' = ~changed
    /\ changed' = FALSE
    /\ pre' = [dest |-> dest, destDir |-> destDir]
    /\ stats' = NoStats
    /\ new_state' = EmptyDict
    /\ log' = << >>
    /\ cli' = NotExited
    /\ UNCHANGED << src, dest, last, edits >>
    /\ IF ConfigError(mode, src_dir)
       THEN /\ result' = "BackupError"
            /\ pc' = "done"
            /\ io' = NoIO
            /\ previous_state' = EmptyDict
            /\ todo' = << >>
            /\ UNCHANGED destDir
       ELSE /\ destDir' = TRUE
            /\ io' = [mkdir |-> TRUE, loaded |-> TRUE, saves |-> 0]
            /\ IF ioerr /\ dest[StateName] # NoFile
               THEN /\ result' = "OSError"
                    /\ pc' = "done"
                    /\ previous_state' = EmptyDict
                    /\ todo' = << >>
               ELSE LET got == load_state(dest[StateName])
                    IN  IF got.ok
                        THEN /\ previous_state' = got.files
                             /\ todo' = os_walk(src, order)
                             /\ result' = "running"
                             /\ pc' = "walk"
                        ELSE /\ result' = got.files
                             /\ pc' = "done"
                             /\ previous_state' = EmptyDict
                             /\ todo' = << >>

\* Lines 118-136: the loop body for the next file of the walk.  `fault` is
\* the I/O error met, if any: reading the file for its hash, opening the
\* destination, or writing it part way.
ProcessFile(fault) ==
    /\ pc = "walk"
    /\ todo # << >>
    /\ LET f == Head(todo)
           rel_path == RelPath(f)
           file_hash == Digest(src[f])
           recorded == Put(new_state, rel_path, file_hash)
       IN  /\ todo' = Tail(todo)
           /\ IF _is_excluded(rel_path, cfg.excludes)
              THEN /\ fault = "none"
                   /\ UNCHANGED << dest, new_state, stats, log, result, pc >>
              ELSE IF fault = "hash"
              THEN /\ result' = "OSError"
                   /\ pc' = "done"
                   /\ UNCHANGED << dest, new_state, stats, log >>
              ELSE IF ShouldSkip(cfg.mode, previous_state, rel_path, file_hash)
              THEN /\ fault = "none"
                   /\ new_state' = recorded
                   /\ stats' = [stats EXCEPT !.skipped = @ + 1]
                   /\ UNCHANGED << dest, log, result, pc >>
              ELSE /\ new_state' = recorded
                   /\ log' = Append(log, rel_path)
                   /\ IF ~DoCopy(cfg.dry_run)
                      THEN /\ fault = "none"
                           /\ stats' = [stats EXCEPT !.files_copied =
                                            CountCopy(@, cfg.dry_run)]
                           /\ UNCHANGED << dest, result, pc >>
                      ELSE CASE fault = "none" ->
                                /\ dest' = [dest EXCEPT ![rel_path] = Raw(src[f])]
                                /\ stats' = [stats EXCEPT
                                       !.bytes_copied = BytesCopied(@, Size(src[f])),
                                       !.files_copied = CountCopy(@, cfg.dry_run)]
                                /\ UNCHANGED << result, pc >>
                             [] fault = "open" ->
                                /\ result' = "OSError"
                                /\ pc' = "done"
                                /\ UNCHANGED << dest, stats >>
                             [] fault = "write" ->
                                /\ dest' = [dest EXCEPT ![rel_path] = Partial]
                                /\ result' = "OSError"
                                /\ pc' = "done"
                                /\ UNCHANGED stats
    /\ UNCHANGED << src, destDir, cfg, previous_state, io, pre, last, sameSrc,
                    changed, runs, edits, cli >>

\* The process is interrupted between two files of the walk.
Interrupt ==
    /\ pc = "walk"
    /\ todo # << >>
    /\ result' = "KeyboardInterrupt"
    /\ pc' = "done"
    /\ UNCHANGED << src, destDir, dest, cfg, previous_state, new_state, stats,
                    todo, log, io, pre, last, sameSrc, changed, runs, edits, cli >>

\* Lines 140-143, the walk over: save_state unless dry_run, and return.
\* `fault` is the I/O error save_state meets, if any: the file not opening,
\* or the writing stopping part way (the disk full, the process killed).
Finish(fault) ==
    /\ pc = "walk"
    /\ todo = << >>
    /\ pc' = "done"
    /\ IF cfg.dry_run
       THEN /\ fault = "none"
            /\ result' = "ok"
            /\ UNCHANGED << dest, io >>
       ELSE CASE fault = "none" ->
                 /\ dest' = [dest EXCEPT ![StateName] =
                                Json(SavedState(previous_state, new_state))]
                 /\ io' = [io EXCEPT !.saves = @ + 1]
                 /\ result' = "ok"
              [] fault = "open" ->
                 /\ result' = "OSError"
                 /\ UNCHANGED << dest, io >>
              [] fault = "write" ->
                 LET old == IF dest[StateName] = NoFile THEN << >>
                            ELSE TextOf(dest[StateName])
                     new == json_dump(SavedState(previous_state, new_state))
                 IN  /\ \E cut \in 0..(Len(new) - 1) :
                          dest' = [dest EXCEPT ![StateName] =
                                      Torn(TornText(old, new, cut))]
                     /\ io' = [io EXCEPT !.saves = @ + 1]
                     /\ result' = "OSError"
    /\ UNCHANGED << src, destDir, cfg, previous_state, new_state, stats, todo,
                    log, pre, last, sameSrc, changed, runs, edits, cli >>

\* The call is over: its locals are gone, and what the caller saw of it
\* (the statistics it returned and the lines it printed, if it returned) is
\* kept for the next call.
Return(report) ==
    /\ pc = "done"
    /\ pc' = "idle"
    /\ result # "ok" => report = "none"
    /\ cli' = IF cfg.mode \in Modes THEN main("ok", result, report)
              ELSE NotExited
    /\ last' = IF result = "ok"
               THEN [ok |-> TRUE, cfg |-> cfg, stats |-> stats, log |-> log]
               ELSE NoRun
    /\ cfg' = NoCfg
    /\ previous_state' = EmptyDict
    /\ new_state' = EmptyDict
    /\ stats' = NoStats
    /\ todo' = << >>
    /\ log' = << >>
    /\ result' = "none"
    /\ io' = NoIO
    /\ pre' = [dest |-> dest, destDir |-> destDir]
    /\ sameSrc' = FALSE
    /\ UNCHANGED << src, destDir, dest, changed, runs, edits >>

\* Lines 50-53 of backupmate.py: parse_args leaves by SystemExit, which
\* argparse raises on arguments it rejects ("error") and after printing the
\* help for -h ("help"); main returns without calling run_backup.
parse_args_exits(parsed) ==
    /\ pc = "idle"
    /\ cli' = main(parsed, "none", "none")
    /\ cli' # cli
    /\ UNCHANGED << src, destDir, dest, pc, cfg, previous_state, new_state, stats,
                    todo, log, result, io, pre, last, sameSrc, changed, runs,
                    edits >>

\* Between two calls, a file of the source is written, replaced or removed.
EditSource(f, c) ==
    /\ pc = "idle"
    /\ 0 < runs
    /\ runs < MaxRuns
    /\ edits < MaxEdits
    /\ c # src[f]
    /\ [src EXCEPT ![f] = c] \in SrcStates
    /\ src' = [src EXCEPT ![f] = c]
    /\ changed' = TRUE
    /\ edits' = edits + 1
    /\ UNCHANGED << destDir, dest, pc, cfg, previous_state, new_state, stats,
                    todo, log, result, io, pre, last, sameSrc, runs, cli >>

Next ==
    \/ \E c \in Configs, ioerr \in BOOLEAN, order \in DirOrders :
            Begin(c.mode, c.excludes, c.dry_run, c.src_dir, ioerr, order)
    \/ \E fault \in { "none", "hash", "open", "write" } : ProcessFile(fault)
    \/ Interrupt
    \/ \E fault \in { "none", "open", "write" } : Finish(fault)
    \/ \E report \in Reports : Return(report)
    \/ \E parsed \in { "error", "help" } : parse_args_exits(parsed)
    \/ \E f \in Files, c \in Contents \cup {NoContent} : EditSource(f, c)

Spec == Init /\ [][Next]_vars

----------------------------------------------------------------------------
(* Vocabulary of the properties *)

\* The paths the exclude lists tried match, as fnmatch decides them.
ExcludedPaths(excludes) ==
    IF excludes = << >> THEN {}
    ELSE { StateName, << "n", "/", "b", ".", "l" >> }

\* The source files a call with these excludes has to back up.
Kept(excludes) ==
    { f \in Files : src[f] # NoContent /\ RelPath(f) \notin ExcludedPaths(excludes) }

FileAt(rel_path) == CHOOSE f \in Files : RelPath(f) = rel_path

\* The paths the current call printed COPY for.
Copied == { log[i] : i \in 1..Len(log) }

\* The current call returned its statistics.
Returned == pc = "done" /\ result = "ok"

\* The manifest file as it was when the current call began.
PriorManifest == pre.dest[StateName]

\* The call before this one was a successful incremental run that wrote its
\* manifest, and the source has not changed since.
AfterIncremental ==
    /\ last.ok
    /\ last.cfg.mode = "incremental"
    /\ ~last.cfg.dry_run

----------------------------------------------------------------------------
(* Properties *)

\* C1: an incremental run that follows a successful incremental run with the
\* same excludes, the source unchanged in between, copies nothing and skips
\* every file that is not excluded.
C1_SecondRunSkipsAll ==
    ( /\ Returned
      /\ cfg.mode = "incremental"
      /\ AfterIncremental
      /\ last.cfg.excludes = cfg.excludes
      /\ sameSrc )
    => /\ stats.files_copied = 0
       /\ stats.skipped = Cardinality(Kept(cfg.excludes))

C1_Witness ==
    /\ Returned
    /\ cfg.mode = "incremental"
    /\ AfterIncremental
    /\ last.cfg.excludes = cfg.excludes
    /\ sameSrc
    /\ stats.skipped = 2
    /\ last.stats.files_copied = 2

\* C2: in an incremental run that follows a successful incremental run, every
\* file whose digest differs from the one the prior manifest records, or whose
\* path the prior manifest lacks, is copied and counted in files_copied, the
\* others are counted in skipped, and the manifest the run writes maps the
\* file's path to its new digest.
C2_ChangedFileIsCopied ==
    ( /\ Returned
      /\ cfg.mode = "incremental"
      /\ AfterIncremental )
    => LET prior == PriorManifest.files
           differs(f) == Get(prior, RelPath(f)) # Digest(src[f])
           kept == Kept(cfg.excludes)
       IN  /\ \A f \in kept : differs(f) => RelPath(f) \in Copied
           /\ stats.files_copied = Cardinality({ f \in kept : differs(f) })
           /\ stats.skipped = Cardinality({ f \in kept : ~differs(f) })
           /\ ~cfg.dry_run =>
                \A f \in kept : Get(dest[StateName].files, RelPath(f)) = Digest(src[f])

C2_Witness ==
    /\ Returned
    /\ cfg.mode = "incremental"
    /\ ~cfg.dry_run
    /\ AfterIncremental
    /\ stats.files_copied = 1
    /\ stats.skipped = 1
    /\ \E f \in Kept(cfg.excludes) :
          /\ RelPath(f) \in DOMAIN PriorManifest.files
          /\ PriorManifest.files[RelPath(f)] # Digest(src[f])
          /\ RelPath(f) \in Copied
          /\ dest[StateName].files[RelPath(f)] = Digest(src[f])

\* C3: a successful full run with no excludes copies every source file exactly
\* once and skips none, whatever the prior manifest holds.
C3_FullCopiesAll ==
    ( /\ Returned
      /\ cfg.mode = "full"
      /\ cfg.excludes = << >> )
    => /\ stats.files_copied = Cardinality({ f \in Files : src[f] # NoContent })
       /\ stats.skipped = 0
       /\ Copied = { RelPath(f) : f \in { g \in Files : src[g] # NoContent } }
       /\ Len(log) = Cardinality(Copied)

C3_Witness ==
    /\ Returned
    /\ cfg.mode = "full"
    /\ cfg.excludes = << >>
    /\ stats.files_copied = 2
    /\ \A f \in Files :
          src[f] # NoContent => Get(previous_state, RelPath(f)) = Digest(src[f])

\* C4: after a successful run that is not a dry run, the manifest on disk is
\* exactly the path -> digest pairs of the source files that are not excluded;
\* nothing of the prior manifest survives.
C4_ManifestIsTheWalk ==
    ( Returned /\ ~cfg.dry_run )
    => dest[StateName] =
         Json([p \in { RelPath(f) : f \in Kept(cfg.excludes) } |->
                 Digest(src[FileAt(p)])])

C4_Witness ==
    /\ Returned
    /\ ~cfg.dry_run
    /\ PriorManifest.k = "json"
    /\ dest[StateName].k = "json"
    /\ \E p \in DOMAIN PriorManifest.files : p \notin DOMAIN dest[StateName].files
    /\ \E p \in DOMAIN dest[StateName].files : p \notin DOMAIN PriorManifest.files

\* C5 as stated: after a successful run that is not a dry run, a path the
\* run's excludes match is absent from the destination tree and from the
\* manifest on disk, whatever earlier runs did.
C5_ExcludedAbsentEverywhere ==
    ( Returned /\ ~cfg.dry_run )
    => \A p \in ExcludedPaths(cfg.excludes) :
          /\ p # StateName => dest[p] = NoFile
          /\ p \notin DOMAIN dest[StateName].files

\* C5, amended: a path the run's excludes match is not copied by the run and
\* not recorded by it: no COPY is printed for it, what the destination holds
\* at that path stays as it was when the run began (only the manifest file
\* itself is rewritten, at its own location), and the manifest a successful
\* run that is not a dry run writes does not hold the path.
C5_ExcludedNotCopied ==
    \A p \in ExcludedPaths(cfg.excludes) :
       /\ p \notin Copied
       /\ p \notin DOMAIN new_state
       /\ dest[p] = pre.dest[p] \/ (p = StateName /\ io.saves > 0)
       /\ (Returned /\ ~cfg.dry_run) => p \notin DOMAIN dest[StateName].files

C5_Witness ==
    /\ Returned
    /\ ~cfg.dry_run
    /\ PriorManifest.k = "json"
    /\ \E p \in ExcludedPaths(cfg.excludes) :
          /\ p # StateName
          /\ src[FileAt(p)] # NoContent
          /\ dest[p] # NoFile
          /\ p \in DOMAIN PriorManifest.files
          /\ p \notin DOMAIN dest[StateName].files

\* C6: a dry run, in either mode and however it ends, leaves every file of
\* the destination tree, the manifest among them, as it was when the run
\* began, and never calls save_state.
C6_DryRunWritesNothing ==
    ( pc # "idle" /\ cfg.dry_run ) => ( dest = pre.dest /\ io.saves = 0 )

C6_Witness ==
    /\ Returned
    /\ cfg.dry_run
    /\ stats.files_copied = 1
    /\ stats.skipped = 1
    /\ PriorManifest.k = "json"
    /\ \E p \in Copied : dest[p] # Raw(src[FileAt(p)])

\* C7: a real run made right after a successful dry run with the same mode
\* and excludes, the source unchanged in between, returns the files_copied
\* and skipped the dry run returned.
C7_DryRunStatsAreTheRealOnes ==
    ( /\ Returned
      /\ ~cfg.dry_run
      /\ last.ok
      /\ last.cfg.dry_run
      /\ last.cfg.mode = cfg.mode
      /\ last.cfg.excludes = cfg.excludes
      /\ sameSrc )
    => /\ stats.files_copied = last.stats.files_copied
       /\ stats.skipped = last.stats.skipped

C7_Witness ==
    /\ Returned
    /\ ~cfg.dry_run
    /\ last.ok
    /\ last.cfg.dry_run
    /\ last.cfg.mode = cfg.mode
    /\ last.cfg.excludes = cfg.excludes
    /\ sameSrc
    /\ stats.files_copied = 1
    /\ stats.skipped = 1

\* C8: a run that began with a valid manifest on disk and fails before it
\* reaches save_state (an I/O error while hashing or copying, or an interrupt
\* during the walk) leaves the manifest on disk exactly as it was when the
\* run began.
C8_FailedRunKeepsManifest ==
    ( /\ pc = "done"
      /\ result \in { "OSError", "KeyboardInterrupt" }
      /\ io.saves = 0
      /\ PriorManifest.k = "json" )
    => dest[StateName] = pre.dest[StateName]

\* C9: a call with a mode that is neither full nor incremental, or with a
\* source directory that does not exist, ends in BackupError with the disk
\* untouched: the destination directory is not created, no destination file
\* is written, and the manifest is neither read nor written.
C9_ConfigErrorBeforeIO ==
    ( /\ pc = "done"
      /\ cfg.mode \notin { "full", "incremental" } \/ cfg.src_dir = "missing" )
    => /\ result = "BackupError"
       /\ destDir = pre.destDir
       /\ dest = pre.dest
       /\ io = NoIO

C9_Witness ==
    /\ pc = "done"
    /\ cfg.src_dir = "missing"
    /\ result = "BackupError"
    /\ ~destDir
    /\ runs = 1

\* C10: every failure of run_backup's own (not an interrupt) reaches the
\* caller as BackupError.
C10_FailuresAreBackupError ==
    ( pc = "done" /\ result \notin { "ok", "KeyboardInterrupt" } )
    => result = "BackupError"

\* C11: load_state returns the empty manifest only when there is no file at
\* the manifest's location; a file that is there and is not a manifest (not
\* JSON, or JSON without a well-formed "files" mapping) makes the load, and so
\* the run, fail: no run gets into its walk on such a file.
C11_MalformedManifestFailsTheLoad ==
    ( /\ pc # "idle"
      /\ io.loaded
      /\ PriorManifest.k \notin { "none", "json" } )
    => /\ pc = "done"
       /\ result \in { "JSONDecodeError", "OSError" }
       /\ log = << >>

\* C12: main returns 0 exactly when the backup and the writing of the report
\* (if one is asked for) succeed, 1 exactly when the parsing of the arguments
\* fails, 2 when run_backup fails, and no other code.
C12_ExitCodes ==
    cli.returned =>
        /\ cli.code \in { 0, EXIT_INVALID_ARGS, EXIT_RUNTIME_ERROR }
        /\ cli.code = 0 <=>
             (cli.parsed = "ok" /\ last.ok /\ cli.report # "failed")
        /\ cli.code = EXIT_INVALID_ARGS <=> cli.parsed = "error"
        /\ (cli.parsed = "ok" /\ ~last.ok) => cli.code = EXIT_RUNTIME_ERROR

\* C13: whenever a run that is not a dry run returns, whatever runs came
\* before it (full, incremental, dry, failed), every source file that is not
\* excluded is in the destination tree at its relative path with the source's
\* content, the files the run skipped among them.  Stated here for the files
\* that do not carry the manifest's name, whose place in the destination the
\* manifest takes.
C13_DestinationMirrorsSource ==
    ( Returned /\ ~cfg.dry_run )
    => \A f \in Kept(cfg.excludes) :
          RelPath(f) # StateName => dest[RelPath(f)] = Raw(src[f])

\* C14: between two runs, whatever runs came before (successful, dry, failed),
\* every path the manifest on disk records has a file in the destination tree
\* whose digest is the recorded one.  Stated here for the paths other than the
\* manifest's own.
C14_ManifestedFilesAreBackedUp ==
    ( pc = "idle" /\ dest[StateName].k = "json" )
    => \A p \in DOMAIN dest[StateName].files :
          p # StateName =>
             /\ dest[p].k = "raw"
             /\ Digest(dest[p].c) = dest[StateName].files[p]

\* C15: a run deletes no file of the destination tree, and changes files of
\* it only at the paths it copies: what the destination holds at a path that
\* is absent from the source, excluded, or skipped by the run stays as it was
\* when the run began, though the manifest the run writes drops the path.
\* The manifest file itself, which the run rewrites, is not one of these files.
C15_NoPruning ==
    LET prior == IF PriorManifest.k = "json" THEN PriorManifest.files
                 ELSE EmptyDict
        absent(p) == src[FileAt(p)] = NoContent
        excluded(p) == p \in ExcludedPaths(cfg.excludes)
        skipped(p) == /\ cfg.mode = "incremental"
                      /\ Get(prior, p) = Digest(src[FileAt(p)])
    IN  /\ \A p \in Paths : pre.dest[p] # NoFile => dest[p] # NoFile
        /\ \A p \in Paths \ {StateName} :
              /\ dest[p] # pre.dest[p] => (p \in Copied /\ ~cfg.dry_run)
              /\ (absent(p) \/ excluded(p) \/ skipped(p))
                    => dest[p] = pre.dest[p]

C15_Witness ==
    /\ Returned
    /\ ~cfg.dry_run
    /\ PriorManifest.k = "json"
    /\ \E p \in Paths \ {StateName} :
          /\ src[FileAt(p)] = NoContent
          /\ p \in DOMAIN PriorManifest.files
          /\ p \notin DOMAIN dest[StateName].files
          /\ dest[p] # NoFile
          /\ dest[p] = pre.dest[p]
    /\ stats.skipped = 1

\* The bytes of the source files at the paths P.
RECURSIVE SizeOfAll(_)
SizeOfAll(P) ==
    IF P = {} THEN 0
    ELSE LET p == CHOOSE q \in P : TRUE
         IN  Size(src[FileAt(p)]) + SizeOfAll(P \ {p})

\* C16: when a run returns, bytes_copied is the number of bytes the run wrote
\* into the destination tree: the sizes of the files it copied, added up, in a
\* real run, and 0 in a dry run, whatever files_copied is.
C16_BytesCopiedIsBytesWritten ==
    Returned =>
       /\ stats.bytes_copied = IF cfg.dry_run THEN 0 ELSE SizeOfAll(Copied)
       /\ ~cfg.dry_run =>
             \A p \in Copied \ {StateName} : dest[p] = Raw(src[FileAt(p)])
       /\ Len(log) = Cardinality(Copied)

C16_Witness ==
    /\ Returned
    /\ ~cfg.dry_run
    /\ stats.files_copied = 2
    /\ stats.bytes_copied = 7
    /\ last.ok
    /\ last.cfg.dry_run
    /\ last.stats.files_copied = 2
    /\ last.stats.bytes_copied = 0

\* C17: every file that is not excluded is counted once, in files_copied or
\* in skipped: between two files of the walk files_copied + skipped is the
\* size of the manifest in progress, excluded files moving no counter, and
\* when the run returns it is the size of the new manifest and the number of
\* source files that are not excluded.
C17_EveryFileCountedOnce ==
    /\ pc = "walk" =>
          /\ stats.files_copied + stats.skipped = Cardinality(DOMAIN new_state)
          /\ stats.files_copied = Len(log)
          /\ \A p \in ExcludedPaths(cfg.excludes) : p \notin DOMAIN new_state
    /\ Returned =>
          /\ stats.files_copied + stats.skipped = Cardinality(DOMAIN new_state)
          /\ stats.files_copied + stats.skipped = Cardinality(Kept(cfg.excludes))
          /\ DOMAIN new_state = { RelPath(f) : f \in Kept(cfg.excludes) }

C17_Witness ==
    /\ Returned
    /\ cfg.excludes # << >>
    /\ \E f \in Files :
          src[f] # NoContent /\ RelPath(f) \in ExcludedPaths(cfg.excludes)
    /\ stats.files_copied = 1
    /\ stats.skipped = 0
    /\ Cardinality(DOMAIN new_state) = 1

\* C18: two runs over the same source tree with the same configuration and
\* the same prior manifest (the second following a dry run, or both in full
\* mode, where the manifest has no say) print the same COPY lines in the same
\* order, however the filesystem lists the directories.
C18_SameInputsSameCopyLines ==
    ( /\ Returned
      /\ last.ok
      /\ last.cfg = cfg
      /\ sameSrc
      /\ last.cfg.dry_run \/ cfg.mode = "full" )
    => log = last.log

\* C19: when the writing of the manifest stops at any point (the file opened
\* and truncated, or written in part), the file left at the manifest's
\* location is not one load_state accepts as a mapping other than the
\* complete old manifest and the complete new one.
C19_TornManifestIsNotMisread ==
    ( pc = "done" /\ io.saves > 0 /\ dest[StateName].k = "torn" )
    => LET got == load_state(dest[StateName])
           old == load_state(PriorManifest)
       IN  got.ok =>
              \/ got.files = new_state
              \/ old.ok /\ got.files = old.files

C19_Witness ==
    /\ pc = "done"
    /\ io.saves = 1
    /\ result = "OSError"
    /\ dest[StateName].k = "torn"
    /\ Len(dest[StateName].toks) > 4
    /\ PriorManifest.k = "json"
    /\ DOMAIN PriorManifest.files # {}
    /\ PriorManifest.files # new_state
    /\ ~load_state(dest[StateName]).ok

====
